---------------------------- MODULE Spec2Model ----------------------------
(***************************************************************************)
(* TravGridObjective (src/ompl/objectives/TravGridObjective.hpp): the cost *)
(* of planning states and motions over a traversability grid.              *)
(*                                                                         *)
(* Doubles are modelled as exact rationals extended with the three values  *)
(* the code can produce besides ordinary numbers: multiples k*DBL_MAX      *)
(* (0 < k <= 1, from numeric_limits<double>::max()), +infinity and NaN.    *)
(* Ordinary numbers are far below DBL_MAX, so adding one to k*DBL_MAX      *)
(* leaves it unchanged (it is below half an ulp), and a sum or product     *)
(* above DBL_MAX overflows to +infinity, as IEEE 754 does.                 *)
(***************************************************************************)
EXTENDS Integers, Sequences, FiniteSets, TLC

\* mpTravGrid, mpTravData, mConfig: the members of the objective.
\* call, result: the member function in progress and what it returns or throws.
\* lastSet: history of the calls, the arguments of the latest setTravGrid.
VARIABLES mpTravGrid, mpTravData, mConfig, call, result, lastSet

vars == <<mpTravGrid, mpTravData, mConfig, call, result, lastSet>>

(***************************************************************************)
(* Bounds of the enumerated inputs.                                        *)
(***************************************************************************)
\* Positions have coordinates in -1 .. MaxCoord; grids are cut from that range.
MaxCoord == 2
\* The configured number of footprint classes ranges over 1 .. MaxFootprintClasses.
MaxFootprintClasses == 2

(***************************************************************************)
(* double arithmetic                                                       *)
(***************************************************************************)
RECURSIVE GCD(_, _)
GCD(a, b) == IF b = 0 THEN a ELSE GCD(b, a % b)

Abs(i) == IF i < 0 THEN -i ELSE i

\* The finite double n/d, in lowest terms with a positive denominator.
Rat(n, d) ==
    LET s == IF d < 0 THEN -1 ELSE 1
        g == GCD(Abs(n), Abs(d))
    IN  [t |-> "fin", n |-> (s * n) \div g, d |-> (s * d) \div g]

Int2D(i) == Rat(i, 1)
Zero == Int2D(0)
Half == Rat(1, 2)

\* std::numeric_limits<double>::infinity() and the NaN of 0*inf, 0/0.
Inf == [t |-> "inf", n |-> 0, d |-> 1]
NaN == [t |-> "nan", n |-> 0, d |-> 1]

\* (n/d) * DBL_MAX for n/d > 0; above DBL_MAX the result overflows.
Big(n, d) ==
    IF n > d THEN Inf
    ELSE LET g == GCD(n, d) IN [t |-> "max", n |-> n \div g, d |-> d \div g]

\* std::numeric_limits<double>::max()
DblMax == Big(1, 1)

IsZero(a) == a.t = "fin" /\ a.n = 0

\* a + b, for operands that are not negative infinities.
Add(a, b) ==
    IF a.t = "nan" \/ b.t = "nan" THEN NaN
    ELSE IF a.t = "inf" \/ b.t = "inf" THEN Inf
    ELSE IF a.t = "max" /\ b.t = "max" THEN Big(a.n * b.d + b.n * a.d, a.d * b.d)
    ELSE IF a.t = "max" THEN a
    ELSE IF b.t = "max" THEN b
    ELSE Rat(a.n * b.d + b.n * a.d, a.d * b.d)

Sub(a, b) == Rat(a.n * b.d - b.n * a.d, a.d * b.d)

\* a * b, for operands >= 0 or finite.
Mul(a, b) ==
    IF a.t = "nan" \/ b.t = "nan" THEN NaN
    ELSE IF a.t = "inf" \/ b.t = "inf"
         THEN IF IsZero(a) \/ IsZero(b) THEN NaN ELSE Inf
    ELSE IF a.t = "max" /\ b.t = "max" THEN Inf
    ELSE IF a.t = "max" THEN IF IsZero(b) THEN Zero ELSE Big(a.n * b.n, a.d * b.d)
    ELSE IF b.t = "max" THEN IF IsZero(a) THEN Zero ELSE Big(a.n * b.n, a.d * b.d)
    ELSE Rat(a.n * b.n, a.d * b.d)

\* a / b, for a >= 0 and a finite b >= 0.
Div(a, b) ==
    IF a.t = "nan" \/ b.t = "nan" THEN NaN
    ELSE IF IsZero(b) THEN IF IsZero(a) THEN NaN ELSE Inf
    ELSE IF a.t = "inf" THEN Inf
    ELSE IF a.t = "max" THEN Big(a.n * b.d, a.d * b.n)
    ELSE Rat(a.n * b.d, a.d * b.n)

Rank(a) == CASE a.t = "fin" -> 0 [] a.t = "max" -> 1 [] a.t = "inf" -> 2 [] OTHER -> 3

\* a > b and a < b; every comparison with NaN is false.
Gt(a, b) ==
    IF a.t = "nan" \/ b.t = "nan" THEN FALSE
    ELSE IF Rank(a) # Rank(b) THEN Rank(a) > Rank(b)
    ELSE IF a.t = "inf" THEN FALSE
    ELSE a.n * b.d > b.n * a.d

Lt(a, b) == Gt(b, a)
Ge(a, b) == IF a.t = "nan" \/ b.t = "nan" THEN FALSE ELSE ~Gt(b, a)

\* The conversion of a double to an array index: truncation towards zero.
Trunc(a) == IF a.n >= 0 THEN a.n \div a.d ELSE -((-a.n) \div a.d)

IsSquare(k) == \E r \in 0..k : r * r = k
ISqrt(k) == CHOOSE r \in 0..k : r * r = k

\* sqrt of a finite a >= 0 whose numerator and denominator are squares.
HasSqrt(a) == IsSquare(a.n) /\ IsSquare(a.d)
Sqrt(a) == Rat(ISqrt(a.n), ISqrt(a.d))


(***************************************************************************)
(* The collaborators: environment variants, grids, configurations, states  *)
(***************************************************************************)
\* Config::mEnvType. ENV_OTHER stands for any enumerator stateCost's switch
\* does not name.
EnvTypes == {"ENV_XY", "ENV_XYTHETA", "ENV_SHERPA", "ENV_OTHER"}

NULL == "NULL"
GridIds == {"gridA", "gridB"}

\* Two maps of different extent, scale and drivability table. Class 2 of
\* gridA and of gridB is impassable.
TravGrid(g) ==
    IF g = "gridA"
    THEN [sizeX |-> MaxCoord, sizeY |-> MaxCoord - 1, scaleX |-> Int2D(1),
          drivability |-> <<Int2D(1), Half, Zero>>]
    ELSE [sizeX |-> MaxCoord - 1, sizeY |-> MaxCoord, scaleX |-> Int2D(2),
          drivability |-> <<Half, Int2D(1), Zero>>]

\* The cell array of a grid, (*mpTravData)[y][x]: the class of each cell.
TravData(g) ==
    [y \in 0..(TravGrid(g).sizeY - 1) |->
        [x \in 0..(TravGrid(g).sizeX - 1) |->
            IF g = "gridA" THEN (x + y) % 3 ELSE (x + y + 2) % 3]]

\* What a constructor or setTravGrid is handed: no grid, or a grid with its
\* own cell array.
Bindings == {<<NULL, NULL>>} \cup {<<g, g>> : g \in GridIds}

Speeds == {Zero, Int2D(1), Int2D(2)}
AdaptTimes == {Zero, Int2D(1)}
Penalties == {Zero, Int2D(3)}

\* Config: the footprint fields vary for the variant that reads them; the
\* other variants carry non-zero values they must ignore.
Configs ==
    [mEnvType : {"ENV_SHERPA"}, mSpeed : Speeds,
     mNumFootprintClasses : 1..MaxFootprintClasses,
     mTimeToAdaptFootprint : AdaptTimes, mAdaptFootprintPenalty : Penalties]
    \cup
    [mEnvType : EnvTypes \ {"ENV_SHERPA"}, mSpeed : Speeds,
     mNumFootprintClasses : {MaxFootprintClasses},
     mTimeToAdaptFootprint : {Int2D(1)}, mAdaptFootprintPenalty : {Int2D(3)}]

XCoords == {Rat(-1, 2), Half} \cup {Int2D(i) : i \in 0..MaxCoord}
YCoords == {Int2D(i) : i \in -1..(MaxCoord - 1)}

\* Positions on the two axes through the origin cell.
Positions ==
    {<<x, Zero>> : x \in XCoords} \cup {<<Zero, y>> : y \in YCoords}

Thetas(env) == IF env \in {"ENV_XYTHETA", "ENV_SHERPA"} THEN {0, 1} ELSE {0}

\* Footprint classes a Sherpa state may carry: the valid 0..N and N+1.
FootprintClasses(cfg) ==
    IF cfg.mEnvType = "ENV_SHERPA" THEN 0..(cfg.mNumFootprintClasses + 1) ELSE {0}

\* The states of the configured state space. Fields a state type lacks are 0.
States(cfg) ==
    {[x |-> p[1], y |-> p[2], theta |-> th, fp |-> c] :
        p \in Positions, th \in Thetas(cfg.mEnvType), c \in FootprintClasses(cfg)}

NoState == [x |-> Zero, y |-> Zero, theta |-> 0, fp |-> 0]

\* Vector2d(x1,y1) - Vector2d(x2,y2), squared norm.
SqNorm(s1, s2) ==
    LET dx == Sub(s1.x, s2.x)
        dy == Sub(s1.y, s2.y)
    IN  Add(Mul(dx, dx), Mul(dy, dy))

\* Pairs of states for motionCost: those whose position distance is a
\* rational, so that the norm is computed exactly. The heading enters a
\* motion only as the difference of the two headings, so the first is 0.
Motions(cfg) ==
    {m \in States(cfg) \X States(cfg) :
        m[1].theta = 0 /\ HasSqrt(SqNorm(m[1], m[2]))}

(***************************************************************************)
(* Results of an evaluation: a cost, or the exception thrown                *)
(***************************************************************************)
NoCost == [t |-> "none", n |-> 0, d |-> 1]
Cost(v) == [status |-> "ok", cost |-> v]
Throw(e) == [status |-> e, cost |-> NoCost]
NoResult == [status |-> "none", cost |-> NoCost]

(***************************************************************************)
(* TravGridObjective::stateCost                                            *)
(***************************************************************************)
\* Mutant: the test x < 0 is missing.
OutOfBounds_NoLowerX(g, s) ==
    \/ Ge(s.x, Int2D(TravGrid(g).sizeX))
    \/ Lt(s.y, Zero)
    \/ Ge(s.y, Int2D(TravGrid(g).sizeY))

\* x < 0 || x >= getCellSizeX() || y < 0 || y >= getCellSizeY()
OutOfBounds(g, s) ==
    \/ Lt(s.x, Zero)
    \/ Ge(s.x, Int2D(TravGrid(g).sizeX))
    \/ Lt(s.y, Zero)
    \/ Ge(s.y, Int2D(TravGrid(g).sizeY))

\* (double)(*mpTravData)[y][x]
ClassValue(d, s) == TravData(d)[Trunc(s.y)][Trunc(s.x)]

\* mpTravGrid->getTraversabilityClass(class_value).getDrivability()
Driveability(g, d, s) == TravGrid(g).drivability[ClassValue(d, s) + 1]

\* Mutant: the cast to double is missing, so the ratio is an integer division.
FootprintRatio_IntDiv(cfg, s) ==
    Int2D((s.fp + 1) \div (cfg.mNumFootprintClasses + 1))

\* (footprint_class+1) / ((double)mNumFootprintClasses+1)
FootprintRatio(cfg, s) == Div(Int2D(s.fp + 1), Int2D(cfg.mNumFootprintClasses + 1))

\* Mutant: the traversal time is multiplied by the driveability.
CellCost_TimesDriveability(g, d, cfg, s) ==
    LET driveability == Driveability(g, d, s)
    IN  IF IsZero(driveability) \/ IsZero(cfg.mSpeed)
        THEN DblMax
        ELSE LET cost == Mul(Div(TravGrid(g).scaleX, cfg.mSpeed), driveability)
             IN  IF cfg.mEnvType = "ENV_SHERPA"
                 THEN Div(cost, FootprintRatio(cfg, s))
                 ELSE cost

CellCost(g, d, cfg, s) ==
    LET driveability == Driveability(g, d, s)
    IN  IF IsZero(driveability) \/ IsZero(cfg.mSpeed)
        THEN DblMax
        ELSE LET cost == Div(Div(TravGrid(g).scaleX, cfg.mSpeed), driveability)
             IN  IF cfg.mEnvType = "ENV_SHERPA"
                 THEN Div(cost, FootprintRatio(cfg, s))
                 ELSE cost

\* Mutant: the switch over the environment runs before the grid is tested.
stateCost_EnvFirst(s) ==
    IF mConfig.mEnvType \notin {"ENV_XY", "ENV_XYTHETA", "ENV_SHERPA"}
    THEN Throw("UnknownEnv")
    ELSE IF mpTravGrid = NULL THEN Throw("NoGrid")
    ELSE IF OutOfBounds(mpTravGrid, s) THEN Throw("InvalidState")
    ELSE Cost(CellCost(mpTravGrid, mpTravData, mConfig, s))

stateCost(s) ==
    IF mpTravGrid = NULL THEN Throw("NoGrid")
    ELSE IF mConfig.mEnvType \notin {"ENV_XY", "ENV_XYTHETA", "ENV_SHERPA"}
         THEN Throw("UnknownEnv")
    ELSE IF OutOfBounds(mpTravGrid, s) THEN Throw("InvalidState")
    ELSE Cost(CellCost(mpTravGrid, mpTravData, mConfig, s))

(***************************************************************************)
(* TravGridObjective::motionCost                                           *)
(***************************************************************************)
\* (Vector2d(s1) - Vector2d(s2)).norm()
PositionDistance(s1, s2) == Sqrt(SqNorm(s1, s2))

\* The state space's distance: position, plus the heading weighted by 1/2.
Distance(s1, s2) ==
    Add(PositionDistance(s1, s2), Mul(Half, Int2D(Abs(s1.theta - s2.theta))))

\* StateCostIntegralObjective's segment cost: the mean of the endpoint costs
\* times the distance.
Trapezoid(c1, c2, dist) == Mul(Mul(Half, dist), Add(c1, c2))

BaseMotionCost(s1, s2) ==
    LET c1 == stateCost(s1)
        c2 == stateCost(s2)
    IN  IF c1.status # "ok" THEN c1
        ELSE IF c2.status # "ok" THEN c2
        ELSE Cost(Trapezoid(c1.cost, c2.cost, Distance(s1, s2)))

\* abs(int(c1 - c2)) / (double)mNumFootprintClasses * mTimeToAdaptFootprint
FpTimeSec(cfg, s1, s2) ==
    Mul(Div(Int2D(Abs(s1.fp - s2.fp)), Int2D(cfg.mNumFootprintClasses)),
        cfg.mTimeToAdaptFootprint)

\* norm() * getScaleX() / mSpeed
MovTimeSec(g, cfg, s1, s2) ==
    Div(Mul(PositionDistance(s1, s2), TravGrid(g).scaleX), cfg.mSpeed)

\* Mutant: the scaled penalty of the disabled line instead of infinity.
SherpaCost_ScaledPenalty(cost_v, s1, s2) ==
    LET fp_time_sec == FpTimeSec(mConfig, s1, s2)
        withTime == Add(cost_v, fp_time_sec)
        withPenalty == IF Gt(fp_time_sec, Zero)
                       THEN Add(withTime, mConfig.mAdaptFootprintPenalty)
                       ELSE withTime
        mov_time_sec == MovTimeSec(mpTravGrid, mConfig, s1, s2)
    IN  IF Gt(fp_time_sec, mov_time_sec)
        THEN Add(withPenalty,
                 Mul(Mul(Div(fp_time_sec, mov_time_sec), mConfig.mAdaptFootprintPenalty),
                     Int2D(100)))
        ELSE withPenalty

\* Mutant: the penalty is added when fp_time_sec >= 0.
SherpaCost_PenaltyAlways(cost_v, s1, s2) ==
    LET fp_time_sec == FpTimeSec(mConfig, s1, s2)
        withTime == Add(cost_v, fp_time_sec)
        withPenalty == IF Ge(fp_time_sec, Zero)
                       THEN Add(withTime, mConfig.mAdaptFootprintPenalty)
                       ELSE withTime
        mov_time_sec == MovTimeSec(mpTravGrid, mConfig, s1, s2)
    IN  IF Gt(fp_time_sec, mov_time_sec) THEN Inf ELSE withPenalty

\* Mutant: the time to change the footprint is not added.
SherpaCost_NoTime(cost_v, s1, s2) ==
    LET fp_time_sec == FpTimeSec(mConfig, s1, s2)
        withPenalty == IF Gt(fp_time_sec, Zero)
                       THEN Add(cost_v, mConfig.mAdaptFootprintPenalty)
                       ELSE cost_v
        mov_time_sec == MovTimeSec(mpTravGrid, mConfig, s1, s2)
    IN  IF Gt(fp_time_sec, mov_time_sec) THEN Inf ELSE withPenalty

SherpaCost(cost_v, s1, s2) ==
    LET fp_time_sec == FpTimeSec(mConfig, s1, s2)
        withTime == Add(cost_v, fp_time_sec)
        withPenalty == IF Gt(fp_time_sec, Zero)
                       THEN Add(withTime, mConfig.mAdaptFootprintPenalty)
                       ELSE withTime
        mov_time_sec == MovTimeSec(mpTravGrid, mConfig, s1, s2)
    IN  IF Gt(fp_time_sec, mov_time_sec) THEN Inf ELSE withPenalty

motionCost(s1, s2) ==
    LET cost == BaseMotionCost(s1, s2)
    IN  IF cost.status # "ok" THEN cost
        ELSE IF mConfig.mEnvType = "ENV_SHERPA"
             THEN Cost(SherpaCost(cost.cost, s1, s2))
             ELSE cost

(***************************************************************************)
(* The object's life: construction, then any sequence of calls             *)
(***************************************************************************)
NoCall == [op |-> "none", s1 |-> NoState, s2 |-> NoState, grid |-> NULL, data |-> NULL]

\* setTravGrid has not been called since construction.
NotSet == <<"ctor", "ctor">>

\* Either constructor: without a grid, or with the grid and data handed in.
Init ==
    /\ mConfig \in Configs
    /\ \E b \in Bindings : mpTravGrid = b[1] /\ mpTravData = b[2]
    /\ call = NoCall
    /\ result = NoResult
    /\ lastSet = NotSet

\* Mutant: a null grid is ignored and the previous binding kept.
SetTravGrid_IgnoresNull ==
    /\ call.op = "none"
    /\ \E b \in Bindings :
        /\ mpTravGrid' = IF b[1] = NULL THEN mpTravGrid ELSE b[1]
        /\ mpTravData' = IF b[1] = NULL THEN mpTravData ELSE b[2]
        /\ call' = [NoCall EXCEPT !.op = "setTravGrid", !.grid = b[1], !.data = b[2]]
        /\ lastSet' = b
    /\ result' = NoResult
    /\ UNCHANGED mConfig

SetTravGrid ==
    /\ call.op = "none"
    /\ \E b \in Bindings :
        /\ mpTravGrid' = b[1]
        /\ mpTravData' = b[2]
        /\ call' = [NoCall EXCEPT !.op = "setTravGrid", !.grid = b[1], !.data = b[2]]
        /\ lastSet' = b
    /\ result' = NoResult
    /\ UNCHANGED mConfig

StateCostCall ==
    /\ call.op = "none"
    /\ \E s \in States(mConfig) :
        /\ call' = [NoCall EXCEPT !.op = "stateCost", !.s1 = s]
        /\ result' = stateCost(s)
    /\ UNCHANGED <<mpTravGrid, mpTravData, mConfig, lastSet>>

MotionCostCall ==
    /\ call.op = "none"
    /\ \E m \in Motions(mConfig) :
        /\ call' = [NoCall EXCEPT !.op = "motionCost", !.s1 = m[1], !.s2 = m[2]]
        /\ result' = motionCost(m[1], m[2])
    /\ UNCHANGED <<mpTravGrid, mpTravData, mConfig, lastSet>>

\* The call returns (or its exception propagates) to the planner.
Return ==
    /\ call.op # "none"
    /\ call' = NoCall
    /\ result' = NoResult
    /\ UNCHANGED <<mpTravGrid, mpTravData, mConfig, lastSet>>

Next == SetTravGrid \/ StateCostCall \/ MotionCostCall \/ Return

Spec == Init /\ [][Next]_vars

(***************************************************************************)
(* Vocabulary of the properties                                            *)
(***************************************************************************)
KnownEnv == mConfig.mEnvType \in {"ENV_XY", "ENV_XYTHETA", "ENV_SHERPA"}
FootprintAware == mConfig.mEnvType = "ENV_SHERPA"
GridBound == mpTravGrid # NULL
IsEvaluation == call.op \in {"stateCost", "motionCost"}
Failed(r) == r.status \in {"NoGrid", "UnknownEnv", "InvalidState"} /\ r.cost = NoCost

\* The position of s lies in [0, width) x [0, height) of grid g.
Inside(g, s) ==
    /\ s.x.n >= 0 /\ s.x.n < TravGrid(g).sizeX * s.x.d
    /\ s.y.n >= 0 /\ s.y.n < TravGrid(g).sizeY * s.y.d

\* Both endpoints of the motion just evaluated lie in the bound grid.
MotionInside ==
    /\ call.op = "motionCost" /\ GridBound
    /\ Inside(mpTravGrid, call.s1) /\ Inside(mpTravGrid, call.s2)

\* The drivability of the cell under s in the bound grid.
DrivAt(s) == Driveability(mpTravGrid, mpTravData, s)

\* (grid scale / speed) / drivability, the unscaled cell cost.
NominalCost(s) == Div(Div(TravGrid(mpTravGrid).scaleX, mConfig.mSpeed), DrivAt(s))

\* (|class(s1) - class(s2)| / numFootprintClasses) * timeToAdaptFootprint
FootprintTime ==
    Mul(Div(Int2D(Abs(call.s1.fp - call.s2.fp)), Int2D(mConfig.mNumFootprintClasses)),
        mConfig.mTimeToAdaptFootprint)

\* position distance * grid scale / speed
MovementTime ==
    Div(Mul(PositionDistance(call.s1, call.s2), TravGrid(mpTravGrid).scaleX),
        mConfig.mSpeed)

\* The mean of the two endpoint state costs times the segment distance.
BaseSegmentCost ==
    Mul(Div(Add(stateCost(call.s1).cost, stateCost(call.s2).cost), Int2D(2)),
        Distance(call.s1, call.s2))

(***************************************************************************)
(* C1: with a grid bound, stateCost of a state whose position is outside   *)
(* the grid fails with the out-of-bounds error and returns no cost, and    *)
(* motionCost with such a state as either endpoint fails as well.          *)
(***************************************************************************)
C1_OutOfBoundsFails ==
    GridBound =>
        /\ (call.op = "stateCost" /\ KnownEnv /\ ~Inside(mpTravGrid, call.s1))
              => result = Throw("InvalidState")
        /\ (call.op = "motionCost"
              /\ (~Inside(mpTravGrid, call.s1) \/ ~Inside(mpTravGrid, call.s2)))
              => /\ Failed(result)
                 /\ KnownEnv => result = Throw("InvalidState")

\* motionCost fails on a first endpoint inside and a second at x = width.
C1_Witness ==
    /\ call.op = "motionCost" /\ GridBound /\ KnownEnv
    /\ Inside(mpTravGrid, call.s1)
    /\ call.s2.x = Int2D(TravGrid(mpTravGrid).sizeX) /\ call.s2.y = Zero
    /\ result = Throw("InvalidState")

(***************************************************************************)
(* C2: every stateCost or motionCost call made while no grid is bound      *)
(* fails with the no-grid error, for every state and environment variant.  *)
(***************************************************************************)
C2_NoGridFails ==
    (IsEvaluation /\ ~GridBound) => result = Throw("NoGrid")

\* A motion evaluated after setTravGrid bound a null grid, under a variant
\* the switch rejects.
C2_Witness ==
    /\ call.op = "motionCost" /\ ~GridBound /\ ~KnownEnv
    /\ lastSet = <<NULL, NULL>>
    /\ ~Inside("gridA", call.s2)
    /\ result = Throw("NoGrid")

(***************************************************************************)
(* C3: for the non-footprint variants, stateCost of an in-bounds state is  *)
(* the infeasible sentinel when the drivability or the speed is 0, and     *)
(* otherwise exactly (scale / speed) / drivability, finite and positive;   *)
(* scale 1, speed 2, drivability 1/2 gives 1.                              *)
(***************************************************************************)
C3_CellCost ==
    (call.op = "stateCost" /\ GridBound /\ KnownEnv /\ ~FootprintAware
        /\ Inside(mpTravGrid, call.s1))
    => LET driv == DrivAt(call.s1)
           scale == TravGrid(mpTravGrid).scaleX
       IN  IF IsZero(driv) \/ IsZero(mConfig.mSpeed)
           THEN result = Cost(DblMax)
           ELSE /\ result.status = "ok"
                /\ result.cost.t = "fin" /\ result.cost.n > 0
                /\ Mul(Mul(result.cost, driv), mConfig.mSpeed) = scale
                /\ (scale = Int2D(1) /\ mConfig.mSpeed = Int2D(2) /\ driv = Half)
                      => result.cost = Int2D(1)

\* The worked example: scale 1, speed 2, drivability 1/2 costs 1.
C3_Witness ==
    /\ call.op = "stateCost" /\ mpTravGrid = "gridA" /\ mConfig.mEnvType = "ENV_XY"
    /\ mConfig.mSpeed = Int2D(2)
    /\ Inside(mpTravGrid, call.s1) /\ DrivAt(call.s1) = Half
    /\ result = Cost(Int2D(1))

(***************************************************************************)
(* C4: for the footprint-aware variant, whenever the footprint time is     *)
(* greater than the movement time, motionCost returns the infinite cost.   *)
(***************************************************************************)
C4_FootprintTooSlow ==
    (MotionInside /\ FootprintAware /\ Gt(FootprintTime, MovementTime))
    => result = Cost(Inf)

\* Forced to infinity although both endpoint cell costs are finite.
C4_Witness ==
    /\ MotionInside /\ FootprintAware /\ Gt(FootprintTime, MovementTime)
    /\ stateCost(call.s1).cost.t = "fin" /\ stateCost(call.s2).cost.t = "fin"
    /\ Gt(PositionDistance(call.s1, call.s2), Zero)
    /\ result = Cost(Inf)

(***************************************************************************)
(* C5: for two in-bounds states with a grid bound, a transition that is    *)
(* infeasible (an endpoint cell of drivability 0, speed 0, or footprint    *)
(* time above movement time) makes motionCost return normally with the     *)
(* maximal cost: one not smaller than the cost of any feasible transition, *)
(* all of which are ordinary finite numbers.                               *)
(***************************************************************************)
Infeasible ==
    \/ IsZero(DrivAt(call.s1))
    \/ IsZero(DrivAt(call.s2))
    \/ IsZero(mConfig.mSpeed)
    \/ (FootprintAware /\ Gt(FootprintTime, MovementTime))

C5_InfeasibleIsMaximal ==
    (MotionInside /\ KnownEnv /\ Infeasible)
    => /\ result.status = "ok"
       /\ result.cost.t \in {"max", "inf"}

(***************************************************************************)
(* C6: for the footprint-aware variant, with drivability > 0, speed > 0    *)
(* and a class c in [0, N], stateCost is the unscaled cell cost divided by *)
(* (c + 1) / (N + 1): never below the unscaled cost, equal to it at the    *)
(* class N, and at class 0 it is N + 1 times the class-N cost of the same  *)
(* cell, hence strictly higher.                                            *)
(***************************************************************************)
C6_FootprintScaling ==
    (call.op = "stateCost" /\ GridBound /\ FootprintAware
        /\ Inside(mpTravGrid, call.s1)
        /\ ~IsZero(DrivAt(call.s1)) /\ ~IsZero(mConfig.mSpeed)
        /\ call.s1.fp \in 0..mConfig.mNumFootprintClasses)
    => LET N == mConfig.mNumFootprintClasses
           c == call.s1.fp
           atMax == stateCost([call.s1 EXCEPT !.fp = N]).cost
       IN  /\ result.status = "ok"
           /\ result.cost.t = "fin"
           /\ Mul(result.cost, Int2D(c + 1)) = Mul(NominalCost(call.s1), Int2D(N + 1))
           /\ Ge(result.cost, NominalCost(call.s1))
           /\ c = N => result.cost = NominalCost(call.s1)
           /\ c = 0 => /\ result.cost = Mul(Int2D(N + 1), atMax)
                       /\ Gt(result.cost, atMax)

\* Class 0 of 3 classes (N = 2): three times the unscaled cost.
C6_Witness ==
    /\ call.op = "stateCost" /\ GridBound /\ FootprintAware
    /\ Inside(mpTravGrid, call.s1)
    /\ mConfig.mNumFootprintClasses = 2 /\ call.s1.fp = 0
    /\ result.status = "ok" /\ result.cost.t = "fin"
    /\ result.cost = Mul(Int2D(3), NominalCost(call.s1))

ClassInRange(s) == s.fp \in 0..mConfig.mNumFootprintClasses

C8_OutOfRangeClassFails ==
    (FootprintAware /\ GridBound)
    => /\ (call.op = "stateCost" /\ ~ClassInRange(call.s1)) => Failed(result)
       /\ (call.op = "motionCost" /\ (~ClassInRange(call.s1) \/ ~ClassInRange(call.s2)))
             => Failed(result)

(***************************************************************************)
(* C9: setTravGrid changes only the bound grid and its cell data, the      *)
(* configuration stays as constructed, evaluations never change the        *)
(* binding, and an evaluation is bounds-checked and costed against the     *)
(* grid bound by the latest setTravGrid.                                   *)
(***************************************************************************)
\* The result of the evaluation in progress is the one the grid and cell
\* data handed to the latest setTravGrid give.
EvaluatedAgainstLastSet ==
    LET g == lastSet[1]
        d == lastSet[2]
    IN  (IsEvaluation /\ lastSet # NotSet)
        => IF g = NULL THEN result = Throw("NoGrid")
           ELSE KnownEnv =>
                /\ call.op = "stateCost" =>
                    /\ result = Throw("InvalidState") <=> ~Inside(g, call.s1)
                    /\ result.status = "ok" <=> Inside(g, call.s1)
                    /\ (result.status = "ok" /\ ~FootprintAware /\ result.cost.t = "fin")
                          => Mul(Mul(result.cost,
                                     TravGrid(g).drivability[
                                        TravData(d)[Trunc(call.s1.y)][Trunc(call.s1.x)] + 1]),
                                 mConfig.mSpeed) = TravGrid(g).scaleX
                /\ call.op = "motionCost" =>
                    /\ result = Throw("InvalidState")
                          <=> (~Inside(g, call.s1) \/ ~Inside(g, call.s2))
                    /\ result.status = "ok"
                          <=> (Inside(g, call.s1) /\ Inside(g, call.s2))

C9_HotSwap ==
    [][ /\ mConfig' = mConfig
        /\ call'.op = "setTravGrid"
              => (mpTravGrid' = call'.grid /\ mpTravData' = call'.data)
        /\ call'.op # "setTravGrid"
              => (mpTravGrid' = mpTravGrid /\ mpTravData' = mpTravData)
        /\ EvaluatedAgainstLastSet' ]_vars

\* After setTravGrid(gridB), a state outside gridA and inside gridB gets a cost.
C9_Witness ==
    /\ call.op = "stateCost" /\ lastSet = <<"gridB", "gridB">>
    /\ KnownEnv
    /\ ~Inside("gridA", call.s1) /\ Inside("gridB", call.s1)
    /\ result.status = "ok" /\ result.cost.t = "fin"

=============================================================================
